---- MODULE Spec2Model ----
(***************************************************************************)
(* Model of the image service (src/main.py, src/database.py,               *)
(* src/r2_storage.py, src/auth.py): the upload / get / delete / update     *)
(* handlers as per-request state machines over two shared stores, the      *)
(* `images` table and the R2 bucket.  Every backend call is one atomic     *)
(* step that either takes effect or raises; handlers of different          *)
(* requests interleave at their `await` points.                            *)
(***************************************************************************)
EXTENDS Integers, Sequences, FiniteSets, TLC

\* ---------------------------------------------------------------- bounds
NReq == 2        \* request slots (requests that can be in flight together)
NUsers == 2      \* verified users that authenticate
MaxUuid == 2     \* uuid4 draws for object names in one run
MaxId == 2       \* ids the images table hands out in one run

Reqs == 1..NReq
Users == 1..NUsers
ImageIds == 1..MaxId   \* ids a caller may name, issued or not

\* ------------------------------------------------------ program constants
\* main.py:236 / main.py:448  `score > 0.2`, scores in hundredths
SCORE_THRESHOLD == 20
\* main.py:86  MAX_UPLOAD_SIZE_BYTES, in MB
MAX_UPLOAD_SIZE_MB == 10

\* main.py:80-84, abstracted to one deny label and one other label
adult_content_labels == {"FEMALE_BREAST_EXPOSED"}

\* ------------------------------------------------------------ inputs
\* An uploaded file: its size in MB, whether its content type starts with
\* "image/", whether PIL verifies it, whether crop + webp conversion works,
\* and what the detector reports for it (class, score in hundredths).
File(size, isimg, ok, proc, det) ==
    [size_mb |-> size, image_type |-> isimg, decodes |-> ok,
     processable |-> proc, detections |-> det]

Files ==
    { File(11, TRUE,  TRUE,  TRUE,  <<>>),                       \* oversized
      File(11, FALSE, TRUE,  TRUE,  <<>>),                       \* oversized, not an image
      File(10, FALSE, TRUE,  TRUE,  <<>>),                       \* not an image
      File(1,  TRUE,  FALSE, TRUE,  <<>>),                       \* corrupt
      File(1,  TRUE,  TRUE,  FALSE, <<>>),                       \* cannot be processed
      File(10, TRUE,  TRUE,  TRUE,  <<>>),                       \* clean, at the limit
      File(1,  TRUE,  TRUE,  TRUE,
           <<[class |-> "FACE_FEMALE", score |-> 90],
             [class |-> "FEMALE_BREAST_EXPOSED", score |-> 21]>>), \* deny match
      File(1,  TRUE,  TRUE,  TRUE,
           <<[class |-> "FEMALE_BREAST_EXPOSED", score |-> 20],
             [class |-> "FACE_FEMALE", score |-> 90]>>) }         \* at threshold: no match

\* ------------------------------------------------------------ values
\* The owner text a handler works with.  upload_image uses str(user.id);
\* get / delete / update receive the User object itself from Depends(auth_middleware).
StrId(u) == <<"str", u>>
UserObj(u) == <<"User", u>>

\* Mutant of ObjectName: the name is built from the owner alone
ObjectName_OwnerOnly(scope, n) == [scope |-> scope, uuid |-> 1]

\* Object names "uploads/{user_id}/{uuid}.webp"
ObjectName(scope, n) == [scope |-> scope, uuid |-> n]
NoKey == [scope |-> <<"none", 0>>, uuid |-> 0]

\* r2_storage.py:36-45: the URL is built from the object name
R2Url(key) == <<"url", key>>

\* One entry of a request's log of backend calls: the operation, the object
\* name it was given (NoKey for database and classifier calls) and whether it
\* returned ("ok") or raised ("raise").
Call(op, key, out) == <<op, key, out>>

VARIABLES
    images,      \* rows of the images table
    idCount,     \* ids issued by the table so far
    bucket,      \* object names that exist in the R2 bucket
    uuidCount,   \* uuid4 values drawn so far
    detector,    \* TRUE iff NudeDetector was initialised at import (main.py:64-77)
    adaptsUser,  \* TRUE iff the database driver can adapt a User object as a parameter
    picture,     \* <<width, height>> of the image that uploads and updates send
    answered,    \* the request answered last, where answered requests are recorded
    db_pool,     \* the connection pool: connections idle in it and checked out of it
    dbcall,      \* the database function that is running, where its steps are followed
    req          \* per slot: the request being served, or the last one served;
                 \* body is the record a get / update returns, listing the
                 \* records a list returns, in order;
                 \* screen is the outcome of screening the uploaded file;
                 \* old_live is history: whether the fetched record's object
                 \* existed in the bucket when the record was fetched

vars == <<images, idCount, bucket, uuidCount, detector, adaptsUser, picture,
         answered, db_pool, dbcall, req>>

\* Sizes of the images clients send: wide, tall and square ones, wider and
\* narrower than 16:9 and 9:16
ScenarioPicture == <<2000, 1000>>
Pictures == {<<2000, 1000>>, <<1000, 2000>>, <<1000, 1000>>, <<1600, 900>>,
             <<900, 1600>>, <<800, 1000>>, <<1000, 800>>}

\* database.py:18-22  SimpleConnectionPool(minconn, maxconn, ...): minconn
\* connections are opened at once and wait in the pool
minconn == 1
maxconn == 10
PoolAtImport == [idle |-> minconn, used |-> 0]

\* No database function is running.  Otherwise: fn is the function, pc its
\* next step, conn whether it holds a connection, closed and txn that
\* connection's state, raised whether an exception is on its way to the caller,
\* exhausted whether getconn refused for want of a free connection.
NoCall ==
    [fn |-> "none", pc |-> "idle", conn |-> FALSE, closed |-> FALSE,
     txn |-> "idle", raised |-> FALSE, exhausted |-> FALSE]

Idle ==
    [kind |-> "idle", pc |-> "done", user |-> 0, image_id |-> 0,
     new_key |-> NoKey, old_key |-> NoKey, old_rec |-> {}, old_live |-> FALSE,
     temp_set |-> FALSE, screen |-> "none", reason |-> "none", status |-> 0,
     body |-> {}, listing |-> <<>>,
     calls |-> <<>>]

InFlight(r) == req[r].pc # "done"
Quiescent == \A r \in Reqs : ~InFlight(r)

\* A request that has produced its response and not yet left its slot
Responding(r) == req[r].pc = "done" /\ req[r] # Idle

\* A finished request's response is sent before anything else runs: nothing
\* reads a finished request's frame
NoneResponding == \A q \in Reqs : ~Responding(q)

\* A new request takes the first free slot
CanBegin(r) ==
    /\ NoneResponding
    /\ req[r] = Idle
    /\ \A q \in Reqs : q < r => InFlight(q)

\* Request r is at step `pc` of handler `kind`
At(r, kind, pc) == NoneResponding /\ req[r].kind = kind /\ req[r].pc = pc

Init ==
    /\ images = {}
    /\ idCount = 0
    /\ bucket = {}
    /\ uuidCount = 0
    /\ detector \in BOOLEAN
    /\ adaptsUser \in BOOLEAN
    /\ picture = ScenarioPicture
    /\ answered = Idle
    /\ db_pool = PoolAtImport
    /\ dbcall = NoCall
    /\ req = [r \in Reqs |-> Idle]

\* The same, for each of the pictures a client may send
PictureInit ==
    /\ images = {}
    /\ idCount = 0
    /\ bucket = {}
    /\ uuidCount = 0
    /\ detector \in BOOLEAN
    /\ adaptsUser \in BOOLEAN
    /\ picture \in Pictures
    /\ answered = Idle
    /\ db_pool = PoolAtImport
    /\ dbcall = NoCall
    /\ req = [r \in Reqs |-> Idle]

\* ------------------------------------------------------- authentication
\* The users table, which this service only reads: accounts 1..NUsers have a
\* verified email, account NUsers + 1 has not; any other id has no row.
\* An account's current token_version is its own number.
Accounts == 1..(NUsers + 1)
users ==
    [a \in Accounts |->
        [id |-> a, token_version |-> a, is_verified_email |-> (a <= NUsers)]]

\* user_models.py:23-52: the row of that id, or None
None == [id |-> 0]
get_user_by_id(user_id) == IF user_id \in Accounts THEN users[user_id] ELSE None

\* What a request presents: the Authorization header's scheme, whether the
\* token decodes under the secret, the payload's user_id (0: absent) and
\* token_version (absent, an int, a str of digits, another str), and the
\* user_id field of a JSON body ("none", "same" as the token's, or "other").
Credential(scheme, decodes, user_id, token_version, body_user) ==
    [scheme |-> scheme, decodes |-> decodes, user_id |-> user_id,
     token_version |-> token_version, body_user |-> body_user]

Token(user_id, token_version) == Credential("bearer", TRUE, user_id, token_version, "none")

Credentials ==
    {Token(a, <<"int", a>>) : a \in Accounts}                 \* current tokens
      \cup {Token(NUsers + 2, <<"int", NUsers + 2>>),           \* no such user
            Token(1, <<"digits", 1>>),                          \* token_version "1"
            Token(1, <<"int", 0>>),                             \* stale version
            Token(1, <<"text", 0>>),                            \* token_version "abc"
            Token(1, <<"none", 0>>),                            \* no token_version
            Token(0, <<"int", 1>>),                             \* no user_id
            Credential("none", TRUE, 1, <<"int", 1>>, "none"),  \* no header
            Credential("basic", TRUE, 1, <<"int", 1>>, "none"), \* not a Bearer header
            Credential("bearer", FALSE, 1, <<"int", 1>>, "none"), \* bad signature
            Credential("bearer", TRUE, NUsers, <<"int", NUsers>>, "same"),
            Credential("bearer", TRUE, NUsers, <<"int", NUsers>>, "other")}

\* auth.py:67-74: int(token_version); ValueError / TypeError for what int()
\* does not convert
IntOf(token_version) ==
    IF token_version[1] \in {"int", "digits"} THEN <<"int", token_version[2]>>
    ELSE <<"ValueError", 0>>

\* auth.py:106-114: a body user_id that differs from the user's id raises
\* HTTPException(403); 0 stands for nothing raised
BodyMismatch(body_user) == IF body_user = "other" THEN 403 ELSE 0

\* auth.py:117-118: `except Exception as e: logger.warning(...)` around the
\* body check: whatever was raised in it, the HTTPException included, is
\* logged and the request goes on.  Result: the status that leaves the block.
BodyCheckExcept(raised_status) == 0

\* The user lookup can raise only for a request that reaches it
LookupOutcomes(c) ==
    IF /\ c.scheme = "bearer" /\ c.decodes /\ c.user_id # 0
       /\ IntOf(c.token_version)[1] = "int"
    THEN {"ok", "raise"} ELSE {"ok"}

\* Mutant of auth_middleware: is_verified_email is not looked at
auth_middleware_Unverified(c, lookup) ==
    IF c.scheme # "bearer" \/ ~c.decodes \/ c.user_id = 0 THEN <<"raise", 401>>
    ELSE IF IntOf(c.token_version)[1] # "int" THEN <<"raise", 401>>
    ELSE IF lookup = "raise" THEN <<"raise", 500>>
    ELSE IF get_user_by_id(c.user_id) = None THEN <<"raise", 401>>
    ELSE IF get_user_by_id(c.user_id).token_version # IntOf(c.token_version)[2]
    THEN <<"raise", 401>>
    ELSE <<"user", c.user_id>>

\* auth.py:22-121.  Result: <<"user", id>> when the dependency returns the
\* User, <<"raise", status>> when it raises; an exception of the user lookup
\* is not handled and becomes the framework's 500.
auth_middleware(c, lookup) ==
    IF c.scheme # "bearer" THEN <<"raise", 401>>
    ELSE IF ~c.decodes THEN <<"raise", 401>>
    ELSE IF c.user_id = 0 THEN <<"raise", 401>>
    ELSE IF c.token_version[1] = "none" THEN <<"raise", 401>>
    ELSE IF IntOf(c.token_version)[1] # "int" THEN <<"raise", 401>>
    ELSE IF lookup = "raise" THEN <<"raise", 500>>
    ELSE IF get_user_by_id(c.user_id) = None THEN <<"raise", 401>>
    ELSE IF get_user_by_id(c.user_id).token_version # IntOf(c.token_version)[2]
    THEN <<"raise", 401>>
    ELSE IF ~get_user_by_id(c.user_id).is_verified_email THEN <<"raise", 403>>
    ELSE IF BodyCheckExcept(BodyMismatch(c.body_user)) # 0
    THEN <<"raise", BodyCheckExcept(BodyMismatch(c.body_user))>>
    ELSE <<"user", c.user_id>>

\* The user Depends(auth_middleware) hands to the handler for credential c
Yields(c) == {a \in Accounts : auth_middleware(c, "ok") = <<"user", a>>}

\* The users handlers are entered with, and the statuses requests are turned
\* away with, over all credentials
Owners == UNION {Yields(c) : c \in Credentials}
Rejections ==
    {auth_middleware(p[1], p[2])[2] :
        p \in {q \in Credentials \X {"ok", "raise"} :
                  /\ q[2] \in LookupOutcomes(q[1])
                  /\ auth_middleware(q[1], q[2])[1] = "raise"}}

\* The handlers that depend on auth_middleware
HandlerKinds == {"upload", "list", "get", "delete", "update"}

\* ------------------------------------------------------- metadata store
\* database.py:80-106  SELECT ... WHERE id = %s AND user_id = %s
get_image_record_by_id(user_id, image_id) ==
    {row \in images : row.id = image_id /\ row.user_id = user_id}

\* database.py:108-133  SELECT ... WHERE user_id = %s ORDER BY uploaded_at DESC
RECURSIVE NewestFirst(_)
NewestFirst(rows) ==
    IF rows = {} THEN <<>>
    ELSE LET newest == CHOOSE x \in rows : \A y \in rows : y.uploaded_at <= x.uploaded_at
         IN <<newest>> \o NewestFirst(rows \ {newest})

\* Mutant of get_all_image_records_by_user_id: the WHERE clause is dropped
get_all_image_records_by_user_id_AllOwners(user_id) ==
    NewestFirst(images)

get_all_image_records_by_user_id(user_id) ==
    NewestFirst({row \in images : row.user_id = user_id})

\* database.py:53-74  INSERT ... RETURNING id
save_image_record(user_id, r2_url, object_name) ==
    images \cup {[id |-> idCount + 1, user_id |-> user_id, r2_url |-> r2_url,
                  object_name |-> object_name, uploaded_at |-> idCount + 1]}

\* Mutant of delete_image_record_by_id: the DELETE is never committed
delete_image_record_by_id_Uncommitted(user_id, image_id) == images

\* database.py:135-158  DELETE FROM images WHERE id = %s AND user_id = %s
delete_image_record_by_id(user_id, image_id) ==
    {row \in images : ~(row.id = image_id /\ row.user_id = user_id)}

\* Mutant of UpdatedRow: the UPDATE also sets uploaded_at to the current time
UpdatedRow_Restamps(row, user_id, image_id, new_r2_url, new_object_name) ==
    IF row.id = image_id /\ row.user_id = user_id
    THEN [row EXCEPT !.r2_url = new_r2_url, !.object_name = new_object_name,
                     !.uploaded_at = idCount + 1]
    ELSE row

\* database.py:160-184  UPDATE images SET r2_url, object_name WHERE id AND user_id
UpdatedRow(row, user_id, image_id, new_r2_url, new_object_name) ==
    IF row.id = image_id /\ row.user_id = user_id
    THEN [row EXCEPT !.r2_url = new_r2_url, !.object_name = new_object_name]
    ELSE row

\* Mutant of update_image_record_url_by_id: only r2_url is set
update_image_record_url_by_id_UrlOnly(user_id, image_id, new_r2_url, new_object_name) ==
    {IF row.id = image_id /\ row.user_id = user_id
     THEN [row EXCEPT !.r2_url = new_r2_url] ELSE row : row \in images}

update_image_record_url_by_id(user_id, image_id, new_r2_url, new_object_name) ==
    {UpdatedRow(row, user_id, image_id, new_r2_url, new_object_name) : row \in images}

\* The parameter value the driver sends for a handler's owner argument:
\* a str is sent as is; a User object is sent as its id when the driver
\* adapts it, and otherwise the call raises (see DbOutcomes).
DbOwner(owner) == owner[2]

\* Outcomes of one database call with the given owner argument: it may
\* always raise (connection, pool or server error); it returns only when
\* the driver can send the parameter.
DbOutcomes(owner) ==
    IF owner[1] = "User" /\ ~adaptsUser THEN {"raise"} ELSE {"ok", "raise"}

\* ----------------------------------------------------------- normalizer
Min(a, b) == IF a <= b THEN a ELSE b
Max(a, b) == IF a >= b THEN a ELSE b

\* image_utils.py:10-99  the box (left, top, right, bottom) the image is
\* cropped to; a ratio "w:h" is the pair <<w, h>>.  int(height * (w / h)) and
\* int(width / (w / h)) are the integer quotients below.
crop_image_to_aspect_ratio(size, horizontal_target_aspect_ratio, vertical_target_aspect_ratio) ==
    LET width      == size[1]
        height     == size[2]
        target     == IF width >= height THEN horizontal_target_aspect_ratio
                      ELSE vertical_target_aspect_ratio
        ratio_w    == target[1]
        ratio_h    == target[2]
        new_width  == IF width >= height
                      THEN Min(width, (height * ratio_w) \div ratio_h)
                      ELSE width
        new_height == IF width >= height
                      THEN height
                      ELSE Min(height, (width * ratio_h) \div ratio_w)
        left0      == (width - new_width) \div 2
        top0       == (height - new_height) \div 2
        left       == Max(0, left0)
        top        == Max(0, top0)
        right      == Min(width, left0 + new_width)
        bottom     == Min(height, top0 + new_height)
    IN IF right <= left \/ bottom <= top
       THEN <<0, 0, width, height>>
       ELSE <<left, top, right, bottom>>

\* config.py:23-24  CROPPED_ASPECT_RATIO = 1.0, the configured 1:1 policy
CROPPED_ASPECT_RATIO == <<1, 1>>

\* Mutant of ProcessedBox: the configured ratio is passed
ProcessedBox_Configured(size) ==
    crop_image_to_aspect_ratio(size, CROPPED_ASPECT_RATIO, CROPPED_ASPECT_RATIO)

\* main.py:250, 462  crop_image_to_aspect_ratio(image): the handlers pass no
\* ratio, so the defaults "16:9" and "9:16" of image_utils.py:12-13 apply
ProcessedBox(size) == crop_image_to_aspect_ratio(size, <<16, 9>>, <<9, 16>>)

\* The part of the client's picture that the object stored under a key holds
StoredBox(object_name) == ProcessedBox(picture)

\* ----------------------------------------------------------- blob store
\* r2_storage.py:27-50  upload_fileobj then return the URL
upload_file_to_r2(object_name) == bucket \cup {object_name}

\* r2_storage.py:52-74  delete_object; a missing key is not an error
delete_file_from_r2(object_name) == bucket \ {object_name}

\* ------------------------------------------------------------ screening
\* main.py:233-240 / 445-452: some detection has a deny label and score > 0.2
DenyMatch(detections) ==
    \E k \in 1..Len(detections) :
        /\ detections[k].class \in adult_content_labels
        /\ detections[k].score > SCORE_THRESHOLD

\* Mutant of ExceptException: the handler logs the exception and falls
\* through to the handler's `return`
ExceptException_FallsThrough(raised_status) == 204

\* `except Exception as e: raise HTTPException(status_code=500, ...)`.
\* HTTPException is an Exception, so a handler of this shape turns whatever
\* was raised inside its try block, an HTTPException included, into a 500.
ExceptException(raised_status) == 500

\* Mutant of ReraiseHTTPException: the handler is missing, so the
\* HTTPException falls through to `except Exception`
ReraiseHTTPException_Swallowed(status) == 500

\* `except HTTPException: raise` (main.py:298-299, 333-334, 361-362,
\* 529-530): an HTTPException raised in the try block leaves the handler
\* with its status unchanged.
ReraiseHTTPException(status) == status

\* main.py:229-245 / 441-457: the nudity check.  `craise` is this call's
\* outcome when the detector is invoked.  Result: <<reason, status, calls>>.
NudityCheck(f, craise) ==
    IF ~detector
    THEN <<"ok", 0, <<>> >>
    ELSE IF craise
    THEN <<"classifier_error", ExceptException(0), <<Call("classify", NoKey, "raise")>> >>
    ELSE IF DenyMatch(f.detections)
    THEN <<"adult", ExceptException(400), <<Call("classify", NoKey, "ok")>> >>
    ELSE <<"ok", 0, <<Call("classify", NoKey, "ok")>> >>

\* main.py:206-257 / 420-469: read, size check, type check, temp file,
\* verify, nudity check, crop + convert.  Result: the exit reason ("ok" when
\* the flow goes on to the upload), the HTTPException status raised, the
\* classifier calls made, and whether the temp file path was assigned.
Screen(f, craise) ==
    IF f.size_mb > MAX_UPLOAD_SIZE_MB
    THEN [reason |-> "oversize", status |-> 413, calls |-> <<>>, temp_set |-> FALSE]
    ELSE IF ~f.image_type
    THEN [reason |-> "badtype", status |-> 400, calls |-> <<>>, temp_set |-> FALSE]
    ELSE IF ~f.decodes
    THEN [reason |-> "corrupt", status |-> 400, calls |-> <<>>, temp_set |-> TRUE]
    ELSE LET n == NudityCheck(f, craise) IN
         IF n[1] # "ok"
         THEN [reason |-> n[1], status |-> n[2], calls |-> n[3], temp_set |-> TRUE]
         ELSE IF ~f.processable
         THEN [reason |-> "processing", status |-> 500, calls |-> n[3], temp_set |-> TRUE]
         ELSE [reason |-> "ok", status |-> 0, calls |-> n[3], temp_set |-> TRUE]

\* The detector outcomes that can occur for a file: a call is only made, and
\* so can only raise, when a detector exists and the file reaches the check
ClassifierRaises(f) ==
    IF detector /\ f.size_mb <= MAX_UPLOAD_SIZE_MB /\ f.image_type /\ f.decodes
    THEN BOOLEAN ELSE {FALSE}

\* Mutant of AfterScreen: a deny match is logged but does not stop the flow
AfterScreen_AdultProceeds(reason) ==
    IF reason \in {"ok", "adult"} THEN "r2_put" ELSE "done"

\* Where a create / update goes after screening: on to the upload only when
\* nothing was raised.
AfterScreen(reason) == IF reason = "ok" THEN "r2_put" ELSE "done"

\* main.py:303-305: upload_image's finally; temp_file_path is always a str
UploadFinally(status) == status

\* main.py:541-543: update_image's finally calls os.path.exists(temp_file_path).
\* While temp_file_path is still None (every exit before main.py:428) that
\* call raises TypeError, which replaces the exception being propagated: the
\* response is the framework's 500.
UpdateFinally(status, temp_set) == IF temp_set THEN status ELSE 500

\* ------------------------------------------------------------ helpers
Finish(rq, reason, status) ==
    [rq EXCEPT !.pc = "done", !.reason = reason, !.status = status]

Logged(rq, op, key, out) ==
    [rq EXCEPT !.calls = Append(rq.calls, Call(op, key, out))]

ActiveUploads == Cardinality({r \in Reqs : req[r].kind = "upload" /\ InFlight(r)})

\* ------------------------------------------------------------ upload_image
\* main.py:189-257: resolve the user, draw the object uuid, screen the file.
\* The uuid drawn at main.py:200 is counted only when the flow goes on to use
\* the object name built from it.
UploadBegin(r, u, f, craise) ==
    /\ CanBegin(r)
    /\ LET s == Screen(f, craise)
           rq == [Idle EXCEPT !.kind = "upload", !.user = u,
                              !.calls = s.calls, !.temp_set = s.temp_set,
                              !.screen = s.reason]
       IN IF AfterScreen(s.reason) = "done"
          THEN /\ req' = [req EXCEPT ![r] =
                            Finish(rq, s.reason, UploadFinally(ReraiseHTTPException(s.status)))]
               /\ uuidCount' = uuidCount
          ELSE /\ uuidCount < MaxUuid
               /\ idCount + ActiveUploads < MaxId
               /\ req' = [req EXCEPT ![r] =
                     [rq EXCEPT !.new_key = ObjectName(StrId(u), uuidCount + 1),
                                !.pc = AfterScreen(s.reason)]]
               /\ uuidCount' = uuidCount + 1
    /\ UNCHANGED <<images, idCount, bucket, detector, adaptsUser, picture, answered, db_pool, dbcall>>

\* Mutant of UploadPut: a failed upload is handled like a failed save, with
\* a cleanup of the object name
UploadPut_Compensates(r) ==
    /\ At(r, "upload", "r2_put")
    /\ \E out \in {"ok", "raise"} :
         /\ bucket' = IF out = "ok" THEN upload_file_to_r2(req[r].new_key) ELSE bucket
         /\ req' = [req EXCEPT ![r] =
                       [Logged(req[r], "r2_put", req[r].new_key, out)
                          EXCEPT !.pc = IF out = "ok" THEN "db_insert" ELSE "compensate"]]
    /\ UNCHANGED <<images, idCount, uuidCount, detector, adaptsUser, picture, answered, db_pool, dbcall>>

\* Mutant of UploadPut: the outcome of the upload is not looked at and the
\* flow goes on to save the record
UploadPut_Unconfirmed(r) ==
    /\ At(r, "upload", "r2_put")
    /\ \E out \in {"ok", "raise"} :
         /\ bucket' = IF out = "ok" THEN upload_file_to_r2(req[r].new_key) ELSE bucket
         /\ req' = [req EXCEPT ![r] =
                       [Logged(req[r], "r2_put", req[r].new_key, out)
                          EXCEPT !.pc = "db_insert"]]
    /\ UNCHANGED <<images, idCount, uuidCount, detector, adaptsUser, picture, answered, db_pool, dbcall>>

\* main.py:259-266: upload to R2
UploadPut(r) ==
    /\ At(r, "upload", "r2_put")
    /\ \E out \in {"ok", "raise"} :
         LET rq == Logged(req[r], "r2_put", req[r].new_key, out) IN
         IF out = "ok"
         THEN /\ bucket' = upload_file_to_r2(req[r].new_key)
              /\ req' = [req EXCEPT ![r] = [rq EXCEPT !.pc = "db_insert"]]
         ELSE /\ bucket' = bucket
              /\ req' = [req EXCEPT ![r] =
                            Finish(rq, "put_failed",
                                   UploadFinally(ReraiseHTTPException(ExceptException(0))))]
    /\ UNCHANGED <<images, idCount, uuidCount, detector, adaptsUser, picture, answered, db_pool, dbcall>>

\* main.py:268-291: save the record; save_image_record returns the new id
\* (a non-empty str) or raises
UploadInsert(r) ==
    /\ At(r, "upload", "db_insert")
    /\ \E out \in DbOutcomes(StrId(req[r].user)) :
         LET rq == Logged(req[r], "db_insert", NoKey, out) IN
         IF out = "ok"
         THEN /\ images' = save_image_record(DbOwner(StrId(req[r].user)),
                                             R2Url(req[r].new_key), req[r].new_key)
              /\ idCount' = idCount + 1
              /\ req' = [req EXCEPT ![r] =
                            Finish([rq EXCEPT !.image_id = idCount + 1],
                                   "created", UploadFinally(201))]
         ELSE /\ UNCHANGED <<images, idCount>>
              /\ req' = [req EXCEPT ![r] = [rq EXCEPT !.pc = "compensate"]]
    /\ UNCHANGED <<bucket, uuidCount, detector, adaptsUser, picture, answered, db_pool, dbcall>>

\* Mutant of UploadCleanup: the handler of a failed save deletes nothing
UploadCleanup_Skipped(key, out) == bucket

\* What upload_image's handler of a failed save does to the bucket
\* (main.py:278-283): one delete of this request's object name
UploadCleanup(key, out) == IF out = "ok" THEN delete_file_from_r2(key) ELSE bucket

\* main.py:278-283: what the cleanup of upload_image writes to the log
UploadCleanupLog(out) == IF out = "ok" THEN <<"info">> ELSE <<"critical">>

\* Mutant of UploadCompensate: a cleanup that failed is tried a second time
UploadCompensate_Retries(r) ==
    /\ At(r, "upload", "compensate")
    /\ \E out \in {"ok", "raise"} :
         /\ bucket' = UploadCleanup(req[r].new_key, out)
         /\ req' = [req EXCEPT ![r] =
               IF out = "raise" /\ req[r].calls[Len(req[r].calls)][1] # "r2_delete"
               THEN Logged(req[r], "r2_delete", req[r].new_key, out)
               ELSE Finish(Logged(req[r], "r2_delete", req[r].new_key, out),
                           "insert_failed", UploadFinally(ReraiseHTTPException(500)))]
    /\ UNCHANGED <<images, idCount, uuidCount, detector, adaptsUser, picture, answered, db_pool, dbcall>>

\* main.py:276-284: clean up the R2 object, then raise 500
UploadCompensate(r) ==
    /\ At(r, "upload", "compensate")
    /\ \E out \in {"ok", "raise"} :
         /\ bucket' = UploadCleanup(req[r].new_key, out)
         /\ req' = [req EXCEPT ![r] =
                       Finish(Logged(req[r], "r2_delete", req[r].new_key, out),
                              "insert_failed", UploadFinally(ReraiseHTTPException(500)))]
    /\ UNCHANGED <<images, idCount, uuidCount, detector, adaptsUser, picture, answered, db_pool, dbcall>>

\* ------------------------------------------------------------ auth_middleware
\* auth.py:22-121 raising: the handler of the route is not entered
AuthReject(r, kind, status) ==
    /\ CanBegin(r)
    /\ status \in Rejections
    /\ req' = [req EXCEPT ![r] =
                  Finish([Idle EXCEPT !.kind = kind], "auth_failed", status)]
    /\ UNCHANGED <<images, idCount, bucket, uuidCount, detector, adaptsUser, picture, answered, db_pool, dbcall>>

\* ------------------------------------------------------------ get_my_images
\* main.py:309-318: one database call
ListImages(r, u) ==
    /\ CanBegin(r)
    /\ \E out \in DbOutcomes(UserObj(u)) :
         LET rq == Logged([Idle EXCEPT !.kind = "list", !.user = u], "db_list", NoKey, out)
         IN req' = [req EXCEPT ![r] =
                      IF out = "raise" THEN Finish(rq, "list_failed", ExceptException(0))
                      ELSE Finish([rq EXCEPT !.listing =
                                      get_all_image_records_by_user_id(DbOwner(UserObj(u)))],
                                  "listed", 200)]
    /\ UNCHANGED <<images, idCount, bucket, uuidCount, detector, adaptsUser, picture, answered, db_pool, dbcall>>

\* ------------------------------------------------------------ get_image_by_id
\* main.py:321-337: one database call; 404 passes through `except HTTPException`
GetImage(r, u, i) ==
    /\ CanBegin(r)
    /\ \E out \in DbOutcomes(UserObj(u)) :
         LET rq  == Logged([Idle EXCEPT !.kind = "get", !.user = u, !.image_id = i],
                           "db_get", NoKey, out)
             rec == get_image_record_by_id(DbOwner(UserObj(u)), i)
         IN req' = [req EXCEPT ![r] =
                      IF out = "raise" THEN Finish(rq, "fetch_failed", ExceptException(0))
                      ELSE IF rec = {} THEN Finish(rq, "not_found", ReraiseHTTPException(404))
                      ELSE Finish([rq EXCEPT !.body = rec], "found", 200)]
    /\ UNCHANGED <<images, idCount, bucket, uuidCount, detector, adaptsUser, picture, answered, db_pool, dbcall>>

\* ------------------------------------------------------------ delete_image
\* main.py:349-365: fetch the record scoped by the caller
DeleteBegin(r, u, i) ==
    /\ CanBegin(r)
    /\ \E out \in DbOutcomes(UserObj(u)) :
         LET rq  == Logged([Idle EXCEPT !.kind = "delete", !.user = u, !.image_id = i],
                           "db_get", NoKey, out)
             rec == get_image_record_by_id(DbOwner(UserObj(u)), i)
         IN req' = [req EXCEPT ![r] =
                      IF out = "raise" THEN Finish(rq, "fetch_failed", ExceptException(0))
                      ELSE IF rec = {} THEN Finish(rq, "not_found", ReraiseHTTPException(404))
                      ELSE [rq EXCEPT !.old_rec = rec,
                                      !.old_key = (CHOOSE row \in rec : TRUE).object_name,
                                      !.old_live = (\E row \in rec : row.object_name \in bucket),
                                      !.pc = "r2_delete"]]
    /\ UNCHANGED <<images, idCount, bucket, uuidCount, detector, adaptsUser, picture, answered, db_pool, dbcall>>

\* Mutant of AfterBlobDelete: a failed blob delete is logged and the flow
\* goes on to the row
AfterBlobDelete_Continues(out) == "db_delete"

\* main.py:368-373: where delete_image goes after the blob delete: on to the
\* row when delete_file_from_r2 returned (True for deleted, False for
\* NoSuchKey), out of the handler when it raised
AfterBlobDelete(out) == IF out = "ok" THEN "db_delete" ELSE "done"

\* main.py:367-373: delete the file from R2; a failure aborts with 500
DeleteBlob(r) ==
    /\ At(r, "delete", "r2_delete")
    /\ \E out \in {"ok", "raise"} :
         LET rq == Logged(req[r], "r2_delete", req[r].old_key, out) IN
         /\ bucket' = IF out = "ok" THEN delete_file_from_r2(req[r].old_key) ELSE bucket
         /\ req' = [req EXCEPT ![r] =
                       IF AfterBlobDelete(out) = "done"
                       THEN Finish(rq, "blob_delete_failed", ExceptException(0))
                       ELSE [rq EXCEPT !.pc = AfterBlobDelete(out)]]
    /\ UNCHANGED <<images, idCount, uuidCount, detector, adaptsUser, picture, answered, db_pool, dbcall>>

\* main.py:375-386: delete the row.  The 404 for "no row deleted" is raised
\* inside the try block whose only handler is `except Exception`.
DeleteRow(r) ==
    /\ At(r, "delete", "db_delete")
    /\ \E out \in DbOutcomes(UserObj(req[r].user)) :
         LET rq      == Logged(req[r], "db_delete", NoKey, out)
             owner   == DbOwner(UserObj(req[r].user))
             deleted == get_image_record_by_id(owner, req[r].image_id) # {}
         IN IF out = "raise"
            THEN /\ images' = images
                 /\ req' = [req EXCEPT ![r] =
                               Finish(rq, "row_delete_failed", ExceptException(0))]
            ELSE /\ images' = delete_image_record_by_id(owner, req[r].image_id)
                 /\ req' = [req EXCEPT ![r] =
                               IF deleted THEN Finish(rq, "deleted", 204)
                               ELSE Finish(rq, "row_vanished", ExceptException(404))]
    /\ UNCHANGED <<idCount, bucket, uuidCount, detector, adaptsUser, picture, answered, db_pool, dbcall>>

\* main.py:371-372, 378-379, 382-383: what delete_image writes to the log on
\* each of its exits after the fetch (logger level, or "info" for success)
DeleteLog(reason) ==
    CASE reason = "blob_delete_failed" -> <<"error">>
      [] reason = "row_vanished"       -> <<"warning", "error">>
      [] reason = "row_delete_failed"  -> <<"error">>
      [] OTHER                         -> <<"info">>

\* ------------------------------------------------------------ update_image
\* Mutant of UpdateBegin: the detector's result for the new file is not
\* looked at
UpdateBegin_DetectionsIgnored(r, u, i, f, craise) ==
    /\ CanBegin(r)
    /\ \E out \in DbOutcomes(UserObj(u)) :
         LET rq0 == Logged([Idle EXCEPT !.kind = "update", !.user = u, !.image_id = i],
                           "db_get", NoKey, out)
             rec == get_image_record_by_id(DbOwner(UserObj(u)), i)
             s   == Screen(File(f.size_mb, f.image_type, f.decodes, f.processable, <<>>),
                           FALSE)
             rq1 == [rq0 EXCEPT !.old_rec = rec,
                                !.old_key = (CHOOSE row \in rec : TRUE).object_name,
                                !.old_live = (\E row \in rec : row.object_name \in bucket),
                                !.calls = rq0.calls \o s.calls,
                                !.temp_set = s.temp_set, !.screen = s.reason]
         IN IF out = "raise"
            THEN /\ req' = [req EXCEPT ![r] =
                     Finish(rq0, "fetch_failed", UpdateFinally(ExceptException(0), FALSE))]
                 /\ uuidCount' = uuidCount
            ELSE IF rec = {}
            THEN /\ req' = [req EXCEPT ![r] =
                     Finish(rq0, "not_found", UpdateFinally(ReraiseHTTPException(404), FALSE))]
                 /\ uuidCount' = uuidCount
            ELSE IF AfterScreen(s.reason) = "done"
            THEN /\ req' = [req EXCEPT ![r] =
                     Finish(rq1, s.reason,
                            UpdateFinally(ReraiseHTTPException(s.status), s.temp_set))]
                 /\ uuidCount' = uuidCount
            ELSE /\ uuidCount < MaxUuid
                 /\ req' = [req EXCEPT ![r] =
                     [rq1 EXCEPT !.new_key = ObjectName(UserObj(u), uuidCount + 1),
                                 !.pc = AfterScreen(s.reason)]]
                 /\ uuidCount' = uuidCount + 1
    /\ UNCHANGED <<images, idCount, bucket, detector, adaptsUser, picture, answered, db_pool, dbcall>>

\* main.py:400-473: fetch the record scoped by the caller, screen the new
\* file, draw the new object uuid.  An exception of the fetch reaches the
\* outer `except Exception` with new_object_name still None: no cleanup.
UpdateBegin(r, u, i, f, craise) ==
    /\ CanBegin(r)
    /\ \E out \in DbOutcomes(UserObj(u)) :
         LET rq0 == Logged([Idle EXCEPT !.kind = "update", !.user = u, !.image_id = i],
                           "db_get", NoKey, out)
             rec == get_image_record_by_id(DbOwner(UserObj(u)), i)
             s   == Screen(f, craise)
             rq1 == [rq0 EXCEPT !.old_rec = rec,
                                !.old_key = (CHOOSE row \in rec : TRUE).object_name,
                                !.old_live = (\E row \in rec : row.object_name \in bucket),
                                !.calls = rq0.calls \o s.calls,
                                !.temp_set = s.temp_set, !.screen = s.reason]
         IN IF out = "raise"
            THEN /\ req' = [req EXCEPT ![r] =
                     Finish(rq0, "fetch_failed", UpdateFinally(ExceptException(0), FALSE))]
                 /\ uuidCount' = uuidCount
            ELSE IF rec = {}
            THEN /\ req' = [req EXCEPT ![r] =
                     Finish(rq0, "not_found", UpdateFinally(ReraiseHTTPException(404), FALSE))]
                 /\ uuidCount' = uuidCount
            ELSE IF AfterScreen(s.reason) = "done"
            THEN /\ req' = [req EXCEPT ![r] =
                     Finish(rq1, s.reason,
                            UpdateFinally(ReraiseHTTPException(s.status), s.temp_set))]
                 /\ uuidCount' = uuidCount
            ELSE /\ uuidCount < MaxUuid
                 /\ req' = [req EXCEPT ![r] =
                     [rq1 EXCEPT !.new_key = ObjectName(UserObj(u), uuidCount + 1),
                                 !.pc = AfterScreen(s.reason)]]
                 /\ uuidCount' = uuidCount + 1
    /\ UNCHANGED <<images, idCount, bucket, detector, adaptsUser, picture, answered, db_pool, dbcall>>

\* main.py:474-482: upload the new file to R2
UpdatePut(r) ==
    /\ At(r, "update", "r2_put")
    /\ \E out \in {"ok", "raise"} :
         LET rq == Logged(req[r], "r2_put", req[r].new_key, out) IN
         IF out = "ok"
         THEN /\ bucket' = upload_file_to_r2(req[r].new_key)
              /\ req' = [req EXCEPT ![r] = [rq EXCEPT !.pc = "db_update"]]
         ELSE /\ bucket' = bucket
              /\ req' = [req EXCEPT ![r] =
                    Finish(rq, "put_failed",
                           UpdateFinally(ReraiseHTTPException(ExceptException(0)), TRUE))]
    /\ UNCHANGED <<images, idCount, uuidCount, detector, adaptsUser, picture, answered, db_pool, dbcall>>

\* main.py:484-488, 498-499: update the row.  It raises, or reports whether
\* a row was updated.
UpdateRow(r) ==
    /\ At(r, "update", "db_update")
    /\ \E out \in DbOutcomes(UserObj(req[r].user)) :
         LET rq      == Logged(req[r], "db_update", NoKey, out)
             owner   == DbOwner(UserObj(req[r].user))
             updated == get_image_record_by_id(owner, req[r].image_id) # {}
         IN IF out = "raise"
            THEN /\ images' = images
                 /\ req' = [req EXCEPT ![r] =
                       [rq EXCEPT !.pc = "compensate", !.reason = "update_raised"]]
            ELSE /\ images' = update_image_record_url_by_id(
                                  owner, req[r].image_id,
                                  R2Url(req[r].new_key), req[r].new_key)
                 /\ req' = [req EXCEPT ![r] =
                       IF updated THEN [rq EXCEPT !.pc = "delete_old"]
                       ELSE [rq EXCEPT !.pc = "cleanup_not_updated",
                                       !.reason = "update_not_affected"]]
    /\ UNCHANGED <<idCount, bucket, uuidCount, detector, adaptsUser, picture, answered, db_pool, dbcall>>

\* Mutant of UpdateCleanup: the cleanup deletes every object of the owner
UpdateCleanup_WholePrefix(key, out) ==
    IF out = "ok" THEN {k \in bucket : k.scope[2] # key.scope[2]} ELSE bucket

\* Mutant of UpdateCleanup: the cleanup deletes nothing
UpdateCleanup_Skipped(key, out) == bucket

\* What one cleanup attempt of update_image does to the bucket
\* (main.py:491-496, 502-507, 534-539): one delete of the new object name
UpdateCleanup(key, out) == IF out = "ok" THEN delete_file_from_r2(key) ELSE bucket

\* main.py:487-497: no row was updated: clean up the new object, then raise
\* HTTPException(404) -- inside the try block of main.py:485, so the
\* `except Exception` of main.py:498 handles it next.
UpdateCleanupNotUpdated(r) ==
    /\ At(r, "update", "cleanup_not_updated")
    /\ \E out \in {"ok", "raise"} :
         /\ bucket' = UpdateCleanup(req[r].new_key, out)
         /\ req' = [req EXCEPT ![r] =
               [Logged(req[r], "r2_delete", req[r].new_key, out)
                  EXCEPT !.pc = "compensate"]]
    /\ UNCHANGED <<images, idCount, uuidCount, detector, adaptsUser, picture, answered, db_pool, dbcall>>

\* main.py:498-508: `except Exception`: clean up the new object, raise 500
UpdateCompensate(r) ==
    /\ At(r, "update", "compensate")
    /\ \E out \in {"ok", "raise"} :
         /\ bucket' = UpdateCleanup(req[r].new_key, out)
         /\ req' = [req EXCEPT ![r] =
               Finish(Logged(req[r], "r2_delete", req[r].new_key, out),
                      req[r].reason,
                      UpdateFinally(ReraiseHTTPException(ExceptException(
                          IF req[r].reason = "update_not_affected" THEN 404 ELSE 0)),
                          TRUE))]
    /\ UNCHANGED <<images, idCount, uuidCount, detector, adaptsUser, picture, answered, db_pool, dbcall>>

\* Mutant of UpdateDeleteOld: a failed delete of the old object is not
\* caught and reaches the catch-all handler
UpdateDeleteOld_Escalates(r) ==
    /\ At(r, "update", "delete_old")
    /\ \E out \in {"ok", "raise"} :
         /\ bucket' = IF out = "ok" THEN delete_file_from_r2(req[r].old_key) ELSE bucket
         /\ req' = [req EXCEPT ![r] =
               IF out = "ok"
               THEN [Logged(req[r], "r2_delete", req[r].old_key, out) EXCEPT !.pc = "refetch"]
               ELSE [Logged(req[r], "r2_delete", req[r].old_key, out)
                       EXCEPT !.pc = "unexpected_cleanup", !.reason = "old_delete_raised"]]
    /\ UNCHANGED <<images, idCount, uuidCount, detector, adaptsUser, picture, answered, db_pool, dbcall>>

\* main.py:511-517: delete the old object, best effort
UpdateDeleteOld(r) ==
    /\ At(r, "update", "delete_old")
    /\ \E out \in {"ok", "raise"} :
         /\ bucket' = IF out = "ok" THEN delete_file_from_r2(req[r].old_key) ELSE bucket
         /\ req' = [req EXCEPT ![r] =
               [Logged(req[r], "r2_delete", req[r].old_key, out) EXCEPT !.pc = "refetch"]]
    /\ UNCHANGED <<images, idCount, uuidCount, detector, adaptsUser, picture, answered, db_pool, dbcall>>

\* main.py:520-526: fetch the updated record and return it.  This call is
\* in no inner try block: when it raises, the outer `except Exception`
\* (main.py:531) runs its cleanup of the new object.
UpdateRefetch(r) ==
    /\ At(r, "update", "refetch")
    /\ \E out \in DbOutcomes(UserObj(req[r].user)) :
         LET rq  == Logged(req[r], "db_get", NoKey, out)
             rec == get_image_record_by_id(DbOwner(UserObj(req[r].user)), req[r].image_id)
         IN req' = [req EXCEPT ![r] =
               IF out = "raise"
               THEN [rq EXCEPT !.pc = "unexpected_cleanup", !.reason = "refetch_raised"]
               ELSE IF rec = {}
               THEN Finish(rq, "refetch_none", UpdateFinally(ReraiseHTTPException(500), TRUE))
               ELSE Finish([rq EXCEPT !.body = rec], "updated", UpdateFinally(200, TRUE))]
    /\ UNCHANGED <<images, idCount, bucket, uuidCount, detector, adaptsUser, picture, answered, db_pool, dbcall>>

\* main.py:531-540: the catch-all cleanup of the new object, then 500
UpdateUnexpectedCleanup(r) ==
    /\ At(r, "update", "unexpected_cleanup")
    /\ \E out \in {"ok", "raise"} :
         /\ bucket' = UpdateCleanup(req[r].new_key, out)
         /\ req' = [req EXCEPT ![r] =
               Finish(Logged(req[r], "r2_delete", req[r].new_key, out),
                      req[r].reason, UpdateFinally(500, TRUE))]
    /\ UNCHANGED <<images, idCount, uuidCount, detector, adaptsUser, picture, answered, db_pool, dbcall>>

\* ------------------------------------------------------------ specification
\* The response is sent and the handler's frame is gone
Respond(r) ==
    /\ Responding(r)
    /\ req' = [req EXCEPT ![r] = Idle]
    /\ UNCHANGED <<images, idCount, bucket, uuidCount, detector, adaptsUser, picture, answered, db_pool, dbcall>>

\* One step of one handler.  A request enters its handler with a user that
\* auth_middleware returns for some credential, or is turned away by it.
Step(r) ==
    \/ \E kind \in HandlerKinds, status \in Rejections : AuthReject(r, kind, status)
    \/ \E u \in Owners, f \in Files : \E craise \in ClassifierRaises(f) :
          UploadBegin(r, u, f, craise)
    \/ UploadPut(r)
    \/ UploadInsert(r)
    \/ UploadCompensate(r)
    \/ \E u \in Owners : ListImages(r, u)
    \/ \E u \in Owners, i \in ImageIds : GetImage(r, u, i)
    \/ \E u \in Owners, i \in ImageIds : DeleteBegin(r, u, i)
    \/ DeleteBlob(r)
    \/ DeleteRow(r)
    \/ \E u \in Owners, i \in ImageIds, f \in Files : \E craise \in ClassifierRaises(f) :
          UpdateBegin(r, u, i, f, craise)
    \/ UpdatePut(r)
    \/ UpdateRow(r)
    \/ UpdateCleanupNotUpdated(r)
    \/ UpdateCompensate(r)
    \/ UpdateDeleteOld(r)
    \/ UpdateRefetch(r)
    \/ UpdateUnexpectedCleanup(r)

Next == \E r \in Reqs : Respond(r) \/ Step(r)

Spec == Init /\ [][Next]_vars

\* Requests served one at a time: every request is served in slot 1, which
\* is free only when the request before it has been answered.  The
\* no-row-updated branch of update_image needs a concurrent delete and so
\* has no step here.
SeqStep(r) ==
    \/ \E kind \in HandlerKinds, status \in Rejections : AuthReject(r, kind, status)
    \/ \E u \in Owners, f \in Files : \E craise \in ClassifierRaises(f) :
          UploadBegin(r, u, f, craise)
    \/ UploadPut(r)
    \/ UploadInsert(r)
    \/ UploadCompensate(r)
    \/ \E u \in Owners : ListImages(r, u)
    \/ \E u \in Owners, i \in ImageIds : GetImage(r, u, i)
    \/ \E u \in Owners, i \in ImageIds : DeleteBegin(r, u, i)
    \/ DeleteBlob(r)
    \/ DeleteRow(r)
    \/ \E u \in Owners, i \in ImageIds, f \in Files : \E craise \in ClassifierRaises(f) :
          UpdateBegin(r, u, i, f, craise)
    \/ UpdatePut(r)
    \/ UpdateRow(r)
    \/ UpdateCompensate(r)
    \/ UpdateDeleteOld(r)
    \/ UpdateRefetch(r)
    \/ UpdateUnexpectedCleanup(r)

SeqNext == \E r \in {1} : Respond(r) \/ SeqStep(r)

SeqSpec == Init /\ [][SeqNext]_vars

\* The same, for each of the pictures a client may send
PictureSpec == PictureInit /\ [][SeqNext]_vars

\* ------------------------------------------------- requests on one record
\* The stores outlive the process: it starts with the record and the object
\* that a create of user 1 left in an earlier run (id 1, a uuid drawn then).
StoredKey == ObjectName(StrId(1), 0)
StoredRecord ==
    [id |-> 1, user_id |-> 1, r2_url |-> R2Url(StoredKey),
     object_name |-> StoredKey, uploaded_at |-> 1]
StoredInit ==
    /\ images = {StoredRecord}
    /\ idCount = 1
    /\ bucket = {StoredKey}
    /\ uuidCount = 0
    /\ detector \in BOOLEAN
    /\ adaptsUser \in BOOLEAN
    /\ picture = ScenarioPicture
    /\ answered = Idle
    /\ db_pool = PoolAtImport
    /\ dbcall = NoCall
    /\ req = [r \in Reqs |-> Idle]

\* The response is sent and the handler's frame is gone; what the request
\* did is kept on record
Retire(r) ==
    /\ Responding(r)
    /\ answered' = req[r]
    /\ req' = [req EXCEPT ![r] = Idle]
    /\ UNCHANGED <<images, idCount, bucket, uuidCount, detector, adaptsUser, picture, db_pool, dbcall>>

\* One step of an update or a delete of that record by its owner
PairStep(r) ==
    \/ DeleteBegin(r, StoredRecord.user_id, StoredRecord.id)
    \/ DeleteBlob(r)
    \/ DeleteRow(r)
    \/ \E f \in Files : \E craise \in ClassifierRaises(f) :
          UpdateBegin(r, StoredRecord.user_id, StoredRecord.id, f, craise)
    \/ UpdatePut(r)
    \/ UpdateRow(r)
    \/ UpdateCleanupNotUpdated(r)
    \/ UpdateCompensate(r)
    \/ UpdateDeleteOld(r)
    \/ UpdateRefetch(r)
    \/ UpdateUnexpectedCleanup(r)

PairNext == \E r \in Reqs : Retire(r) \/ PairStep(r)

\* Updates and deletes, up to NReq at a time, of a store that holds a record
PairSpec == StoredInit /\ [][PairNext]_vars

\* ------------------------------------------------------ creates of any size
\* Creates, one at a time, of pictures of every small size and of the sizes
\* in Pictures
MaxSide == 6
Sizes == ((1..MaxSide) \X (1..MaxSide)) \cup Pictures

SizesInit ==
    /\ images = {}
    /\ idCount = 0
    /\ bucket = {}
    /\ uuidCount = 0
    /\ detector \in BOOLEAN
    /\ adaptsUser \in BOOLEAN
    /\ picture \in Sizes
    /\ answered = Idle
    /\ db_pool = PoolAtImport
    /\ dbcall = NoCall
    /\ req = [r \in Reqs |-> Idle]

CreateNext ==
    \E r \in {1} :
        \/ Respond(r)
        \/ \E u \in Owners, f \in Files : \E craise \in ClassifierRaises(f) :
              UploadBegin(r, u, f, craise)
        \/ UploadPut(r)
        \/ UploadInsert(r)
        \/ UploadCompensate(r)

CreateSpec == SizesInit /\ [][CreateNext]_vars

\* ------------------------------------------------------ connection pool
\* The database functions, one at a time, step by step.  Those that write
\* commit, and roll back in their except block; those that read do neither.
DbReads  == {"get_image_record_by_id", "get_all_image_records_by_user_id",
             "get_user_by_id"}
DbWrites == {"save_image_record", "delete_image_record_by_id",
             "update_image_record_url_by_id"}
DbFunctions == DbReads \cup DbWrites

\* After cursor.execute: writes go on to commit or, when it raised, to the
\* rollback of their except block; reads go to their finally block
AfterExecute(fn, out) ==
    IF fn \in DbReads THEN "release"
    ELSE IF out = "ok" THEN "commit" ELSE "rollback"

\* SimpleConnectionPool.putconn: the connection is no longer checked out; it
\* is kept while fewer than minconn connections wait in the pool
putconn(p) ==
    [idle |-> IF p.idle < minconn THEN p.idle + 1 ELSE p.idle, used |-> p.used - 1]

\* database.py:29-38 get_db_connection, first statement of every function's
\* try block.  getconn hands out a waiting connection, or opens one unless
\* maxconn are checked out; when it raises, the function holds no connection.
DbGetConn(fn) ==
    /\ dbcall.pc = "idle"
    /\ \/ /\ db_pool.idle > 0
          /\ db_pool' = [idle |-> db_pool.idle - 1, used |-> db_pool.used + 1]
          /\ dbcall' = [NoCall EXCEPT !.fn = fn, !.pc = "execute", !.conn = TRUE]
       \/ /\ db_pool.idle = 0 /\ db_pool.used < maxconn
          /\ \/ /\ db_pool' = [db_pool EXCEPT !.used = @ + 1]
                /\ dbcall' = [NoCall EXCEPT !.fn = fn, !.pc = "execute", !.conn = TRUE]
             \/ /\ db_pool' = db_pool
                /\ dbcall' = [NoCall EXCEPT !.fn = fn, !.pc = "release", !.raised = TRUE]
       \/ /\ db_pool.idle = 0 /\ db_pool.used = maxconn
          /\ db_pool' = db_pool
          /\ dbcall' = [NoCall EXCEPT !.fn = fn, !.pc = "release", !.raised = TRUE,
                                      !.exhausted = TRUE]
    /\ UNCHANGED <<images, idCount, bucket, uuidCount, detector, adaptsUser, picture,
                   answered, req>>

\* cursor.execute: the statement opens a transaction; it returns, or the
\* server rejects it, or the connection is lost
DbExecute ==
    /\ dbcall.pc = "execute"
    /\ \E out \in {"ok", "error", "lost"} :
         dbcall' = [dbcall EXCEPT
                      !.pc = AfterExecute(dbcall.fn, out),
                      !.txn = IF out = "ok" THEN "intrans" ELSE "inerror",
                      !.closed = (out = "lost"),
                      !.raised = (out # "ok")]
    /\ UNCHANGED <<images, idCount, bucket, uuidCount, detector, adaptsUser, picture,
                   answered, db_pool, req>>

\* conn.commit() of a write
DbCommit ==
    /\ dbcall.pc = "commit"
    /\ \E out \in {"ok", "lost"} :
         dbcall' = IF out = "ok"
                   THEN [dbcall EXCEPT !.pc = "release", !.txn = "idle"]
                   ELSE [dbcall EXCEPT !.pc = "rollback", !.closed = TRUE, !.raised = TRUE]
    /\ UNCHANGED <<images, idCount, bucket, uuidCount, detector, adaptsUser, picture,
                   answered, db_pool, req>>

\* `if conn: conn.rollback()` in the except block of a write: on a closed
\* connection it raises, and the finally block runs next all the same
DbRollback ==
    /\ dbcall.pc = "rollback"
    /\ dbcall' = [dbcall EXCEPT !.pc = "release",
                                !.txn = IF dbcall.closed THEN @ ELSE "idle"]
    /\ UNCHANGED <<images, idCount, bucket, uuidCount, detector, adaptsUser, picture,
                   answered, db_pool, req>>

\* database.py:40-50 release_db_connection, the finally block: putconn only
\* for an open connection with no transaction; otherwise conn.close(), and
\* the pool still counts the connection as checked out
release_db_connection(p, call) ==
    IF call.conn /\ ~call.closed /\ call.txn = "idle" THEN putconn(p) ELSE p

DbRelease ==
    /\ dbcall.pc = "release"
    /\ db_pool' = release_db_connection(db_pool, dbcall)
    /\ dbcall' = [NoCall EXCEPT !.fn = dbcall.fn, !.raised = dbcall.raised,
                                !.exhausted = dbcall.exhausted]
    /\ UNCHANGED <<images, idCount, bucket, uuidCount, detector, adaptsUser, picture,
                   answered, req>>

PoolNext ==
    \/ \E fn \in DbFunctions : DbGetConn(fn)
    \/ DbExecute
    \/ DbCommit
    \/ DbRollback
    \/ DbRelease

\* The database functions called one after another
PoolSpec == Init /\ [][PoolNext]_vars

\* ------------------------------------------------------------ cancellation
\* Every backend call is awaited as asyncio.to_thread(...) (main.py:98-108).
\* When the handler's task is cancelled, CancelledError is raised at the
\* await the handler is suspended in; it is not an Exception, so no
\* `except Exception` / `except HTTPException` block of the handler runs, only
\* the finally.  The thread of the pending call is not stopped: the call
\* still returns or raises, and nobody looks at its outcome.

\* The awaits of create and update that come after the put returned
CancelPoints ==
    {"db_insert", "db_update", "compensate", "cleanup_not_updated", "delete_old",
     "refetch", "unexpected_cleanup"}

\* The backend call request r is suspended in: its name in the log and the
\* object name it was given
PendingCall(rq) ==
    CASE rq.pc = "db_insert"  -> <<"db_insert", NoKey>>
      [] rq.pc = "db_update"  -> <<"db_update", NoKey>>
      [] rq.pc = "refetch"    -> <<"db_get", NoKey>>
      [] rq.pc = "delete_old" -> <<"r2_delete", rq.old_key>>
      [] OTHER                -> <<"r2_delete", rq.new_key>>

\* main.py:268-291, 484-540 under cancellation: the pending call takes
\* effect or raises in its thread, the handler leaves through its finally
\* and no response is sent
Cancel(r) ==
    /\ NoneResponding
    /\ req[r].kind \in {"upload", "update"}
    /\ req[r].pc \in CancelPoints
    /\ LET rq    == req[r]
           call  == PendingCall(rq)
           owner == DbOwner(IF rq.kind = "upload" THEN StrId(rq.user) ELSE UserObj(rq.user))
       IN \E out \in (IF call[2] = NoKey
                      THEN DbOutcomes(IF rq.kind = "upload" THEN StrId(rq.user)
                                      ELSE UserObj(rq.user))
                      ELSE {"ok", "raise"}) :
            /\ images' =
                 IF out = "raise" THEN images
                 ELSE IF rq.pc = "db_insert"
                 THEN save_image_record(owner, R2Url(rq.new_key), rq.new_key)
                 ELSE IF rq.pc = "db_update"
                 THEN update_image_record_url_by_id(owner, rq.image_id,
                                                    R2Url(rq.new_key), rq.new_key)
                 ELSE images
            /\ idCount' = IF out = "ok" /\ rq.pc = "db_insert" THEN idCount + 1 ELSE idCount
            /\ bucket' =
                 IF out = "ok" /\ call[1] = "r2_delete"
                 THEN delete_file_from_r2(call[2]) ELSE bucket
            /\ req' = [req EXCEPT ![r] =
                          Finish(Logged(rq, call[1], call[2], out), "cancelled", 0)]
    /\ UNCHANGED <<uuidCount, detector, adaptsUser, picture, answered, db_pool, dbcall>>

\* Requests served one at a time, any of which may be cancelled
CancelNext == \E r \in {1} : Respond(r) \/ SeqStep(r) \/ Cancel(r)

CancelSpec == Init /\ [][CancelNext]_vars

\* ------------------------------------------------------------ properties
Done(r, kind) == req[r].kind = kind /\ req[r].pc = "done"

\* The calls of request r that write to a store
WriteOps == {"r2_put", "r2_delete", "db_insert", "db_update", "db_delete"}
Writes(r) == {k \in 1..Len(req[r].calls) : req[r].calls[k][1] \in WriteOps}

\* The blob deletes request r issued for object name `key`
DeletesOf(r, key) ==
    {k \in 1..Len(req[r].calls) :
        req[r].calls[k][1] = "r2_delete" /\ req[r].calls[k][2] = key}

RowsAt(key) == {row \in images : row.object_name = key}

\* C1: whenever no request is in flight, every record's object name exists
\* in the bucket and every object in the bucket is referenced by exactly one
\* record, whatever requests (failed or not) completed before.
C1_QuiescentStoresConsistent ==
    Quiescent =>
        /\ \A row \in images : row.object_name \in bucket
        /\ \A key \in bucket : Cardinality(RowsAt(key)) = 1

\* C2 (as stated): when the insert of a create fails after its put
\* succeeded, the request ends with the object deleted, no record for the
\* attempt, and a server error.
C2_FailedInsertLeavesNoBlob ==
    \A r \in Reqs :
        Done(r, "upload") /\ req[r].reason = "insert_failed" =>
            /\ req[r].new_key \notin bucket
            /\ RowsAt(req[r].new_key) = {}
            /\ req[r].status = 500

\* C2 (amended): when the insert of a create fails after its put succeeded,
\* the request ends with a server error and no record for the attempt, having
\* issued exactly one delete, for its own object name; the object is gone
\* unless that delete itself failed.
C2_FailedInsertCompensated ==
    \A r \in Reqs :
        Done(r, "upload") /\ req[r].reason = "insert_failed" =>
            /\ req[r].status = 500
            /\ RowsAt(req[r].new_key) = {}
            /\ Cardinality(DeletesOf(r, req[r].new_key)) = 1
            /\ \A k \in Writes(r) :
                 req[r].calls[k][1] = "r2_delete" => req[r].calls[k][2] = req[r].new_key
            /\ (\E k \in DeletesOf(r, req[r].new_key) : req[r].calls[k][3] = "ok")
                 => req[r].new_key \notin bucket

C2_Witness ==
    \E r \in Reqs :
        /\ Done(r, "upload") /\ req[r].reason = "insert_failed"
        /\ \E k \in DeletesOf(r, req[r].new_key) : req[r].calls[k][3] = "ok"
        /\ \E k \in Writes(r) : req[r].calls[k] = Call("r2_put", req[r].new_key, "ok")

\* What get(owner, id) of the metadata store returns for request r's caller
StoreGet(r) == get_image_record_by_id(req[r].user, req[r].image_id)

\* C3 (as stated): when the row update of an update raises after the new
\* object was stored, the request ends with a server error, the new object
\* absent, the old object still there, and get returning the record as fetched.
C3_FailedUpdateLeavesNoNewBlob ==
    \A r \in Reqs :
        Done(r, "update") /\ req[r].reason = "update_raised" =>
            /\ req[r].status = 500
            /\ req[r].new_key \notin bucket
            /\ req[r].old_live => req[r].old_key \in bucket
            /\ StoreGet(r) = req[r].old_rec

\* C3 (amended): when the row update of an update raises after the new
\* object was stored, the request ends with a server error, the old object
\* still there and get returning the record as fetched (same object name and
\* URL); one delete of the new object was issued, and the new object is
\* absent unless that delete itself failed.
C3_FailedUpdateCompensated ==
    \A r \in Reqs :
        Done(r, "update") /\ req[r].reason = "update_raised" =>
            /\ req[r].status = 500
            /\ req[r].old_live => req[r].old_key \in bucket
            /\ StoreGet(r) = req[r].old_rec
            /\ req[r].old_rec # {}
            /\ Cardinality(DeletesOf(r, req[r].new_key)) = 1
            /\ DeletesOf(r, req[r].old_key) = {}
            /\ (\E k \in DeletesOf(r, req[r].new_key) : req[r].calls[k][3] = "ok")
                 => req[r].new_key \notin bucket

C3_Witness ==
    \E r \in Reqs :
        /\ Done(r, "update") /\ req[r].reason = "update_raised"
        /\ req[r].old_live /\ req[r].old_key \in bucket
        /\ \E k \in DeletesOf(r, req[r].new_key) : req[r].calls[k][3] = "ok"
        /\ \E k \in Writes(r) : req[r].calls[k] = Call("r2_put", req[r].new_key, "ok")

Foreign(r) ==
    \E row \in images : row.id = req[r].image_id /\ row.user_id # req[r].user

\* Request r's first call, the fetch scoped by the caller, returned
Fetched(r) == Len(req[r].calls) >= 1 /\ req[r].calls[1] = Call("db_get", NoKey, "ok")

\* C6: get, update and delete by a caller who does not own the record answer
\* not-found (404), as for an id that does not exist, and write nothing.
C6_OtherOwnerIsNotFound ==
    \A r \in Reqs :
        /\ req[r].pc = "done" /\ req[r].kind \in {"get", "update", "delete"}
        /\ Fetched(r) /\ Foreign(r)
        => /\ req[r].status = 404
           /\ Writes(r) = {}
           /\ req[r].body = {}

\* What does hold of owner isolation: a caller's get, update or delete of
\* another user's record ends exactly as it does for an id with no record
\* (the same exit, the same status, no body, no call after the fetch).
OwnerIsolation ==
    \A r \in Reqs :
        /\ req[r].pc = "done" /\ req[r].kind \in {"get", "update", "delete"}
        /\ Fetched(r)
        /\ Foreign(r) \/ (\A row \in images : row.id # req[r].image_id)
        /\ req[r].old_rec = {}
        => /\ req[r].reason = "not_found"
           /\ req[r].status = (IF req[r].kind = "update" THEN 500 ELSE 404)
           /\ req[r].body = {}
           /\ Len(req[r].calls) = 1

ScreenRejections == {"oversize", "badtype", "corrupt", "adult"}

\* C7: a create or update rejected for a wrong content type, an oversized
\* payload, an undecodable image or a deny match has made no blob put, no
\* blob delete and no metadata insert, update or delete.
C7_RejectionWritesNothing ==
    \A r \in Reqs :
        /\ req[r].pc = "done" /\ req[r].kind \in {"upload", "update"}
        /\ req[r].screen \in ScreenRejections
        => /\ Writes(r) = {}
           /\ req[r].new_key = NoKey
           /\ req[r].reason = req[r].screen

C7_Witness ==
    \E r \in Reqs :
        /\ Done(r, "update") /\ req[r].screen = "adult"
        /\ req[r].old_rec # {}
        /\ \E k \in 1..Len(req[r].calls) : req[r].calls[k][1] = "classify"

\* C8: a detection with a deny label and score above 0.2 ends a create or an
\* update with the client error 400.
C8_DenyMatchIsClientError ==
    \A r \in Reqs :
        /\ req[r].pc = "done" /\ req[r].kind \in {"upload", "update"}
        /\ req[r].screen = "adult"
        => req[r].status = 400

\* C9: an update whose fetch finds no record for the caller ends with 404,
\* having made no call but the fetch.
C9_UpdateOfAbsentIsNotFound ==
    \A r \in Reqs :
        Done(r, "update") /\ Fetched(r) /\ req[r].old_rec = {} =>
            /\ req[r].status = 404
            /\ Len(req[r].calls) = 1

\* C10: a delete whose fetch finds no record for the caller (the id was
\* deleted before, or never existed for this owner) ends with 404, having
\* made no call but the fetch.
C10_DeleteOfAbsentIsNotFound ==
    \A r \in Reqs :
        Done(r, "delete") /\ Fetched(r) /\ req[r].old_rec = {} =>
            /\ req[r].status = 404
            /\ Len(req[r].calls) = 1
            /\ Writes(r) = {}

\* a delete of an id that was issued and whose record has since been deleted
C10_Witness ==
    \E r \in Reqs :
        /\ Done(r, "delete") /\ Fetched(r) /\ req[r].old_rec = {}
        /\ req[r].image_id <= idCount
        /\ \A row \in images : row.id # req[r].image_id
        /\ req[r].status = 404

\* The position of the calls of request r with operation `op`
CallsOf(r, op) == {k \in 1..Len(req[r].calls) : req[r].calls[k][1] = op}

\* C11: in a delete the row delete is issued only directly after a blob
\* delete of the record's object that returned (object deleted, or already
\* absent); a blob delete that raised ends the request with 500 and without
\* any call on the metadata row.
C11_RowDeleteOnlyAfterBlobDelete ==
    \A r \in Reqs :
        req[r].kind = "delete" =>
            /\ \A k \in CallsOf(r, "db_delete") :
                 k > 1 /\ req[r].calls[k - 1] = Call("r2_delete", req[r].old_key, "ok")
            /\ (\E k \in CallsOf(r, "r2_delete") : req[r].calls[k][3] = "raise") =>
                 /\ req[r].pc = "done"
                 /\ req[r].reason = "blob_delete_failed"
                 /\ req[r].status = 500
                 /\ CallsOf(r, "db_delete") = {}
                 /\ Len(req[r].calls) = 2

\* a delete that removed the row after the blob delete confirmed an object
\* that was already absent
C11_Witness ==
    \E r \in Reqs :
        /\ Done(r, "delete") /\ req[r].status = 204
        /\ ~req[r].old_live
        /\ req[r].calls[2] = Call("r2_delete", req[r].old_key, "ok")

\* C12: a delete whose row delete raised after its blob delete returned never
\* answers success: it answers an error status and the failure is logged at
\* error level.
C12_FailedRowDeleteIsAnError ==
    \A r \in Reqs :
        /\ Done(r, "delete")
        /\ \E k \in CallsOf(r, "db_delete") : req[r].calls[k][3] = "raise"
        => /\ req[r].status >= 400
           /\ req[r].status = 500
           /\ req[r].reason = "row_delete_failed"
           /\ \E j \in 1..Len(DeleteLog(req[r].reason)) :
                 DeleteLog(req[r].reason)[j] = "error"

C12_Witness ==
    \E r \in Reqs :
        /\ Done(r, "delete") /\ req[r].reason = "row_delete_failed"
        /\ req[r].calls[2] = Call("r2_delete", req[r].old_key, "ok")
        /\ req[r].old_live /\ req[r].old_key \notin bucket
        /\ StoreGet(r) # {}

\* Call k of request r is directly preceded by the call <<op, key, "ok">>
Preceded(r, k, op, key) == k > 1 /\ req[r].calls[k - 1] = Call(op, key, "ok")

\* C13: in every flow the metadata write comes only after the blob operation
\* it depends on returned: a create inserts only directly after its put
\* returned; an update changes the row only directly after the put of its new
\* object returned, and deletes the old object only directly after a row
\* update that updated the row; a delete removes the row only directly after
\* its blob delete returned.
C13_MetadataAfterBlob ==
    \A r \in Reqs :
        /\ req[r].kind = "upload" =>
              \A k \in CallsOf(r, "db_insert") : Preceded(r, k, "r2_put", req[r].new_key)
        /\ req[r].kind = "update" =>
              /\ \A k \in CallsOf(r, "db_update") :
                    Preceded(r, k, "r2_put", req[r].new_key)
              /\ \A k \in DeletesOf(r, req[r].old_key) :
                    /\ Preceded(r, k, "db_update", NoKey)
                    /\ req[r].reason \notin {"update_raised", "update_not_affected"}
        /\ req[r].kind = "delete" =>
              \A k \in CallsOf(r, "db_delete") : Preceded(r, k, "r2_delete", req[r].old_key)
        /\ req[r].kind \in {"upload", "update"} /\ req[r].new_key # NoKey =>
              req[r].new_key # req[r].old_key

\* an update that went through put, row update and old-object delete while a
\* delete has had its blob delete confirmed and is about to remove the row
C13_Witness ==
    \E r, q \in Reqs :
        /\ req[r].kind = "update" /\ DeletesOf(r, req[r].old_key) # {}
        /\ CallsOf(r, "db_update") # {}
        /\ req[q].kind = "delete" /\ req[q].pc = "db_delete"

\* The steps of create and update that clean up after a failure
CompensationPcs == {"compensate", "cleanup_not_updated", "unexpected_cleanup"}

\* The exits of an update on which the row was not updated by this request
NotUpdatedExits ==
    {"auth_failed", "fetch_failed", "not_found", "oversize", "badtype", "corrupt", "classifier_error",
     "adult", "processing", "put_failed", "update_raised", "update_not_affected"}

\* What a step says about request r's compensation
CompensationIsLocal(r) ==
    /\ req[r].pc \in CompensationPcs /\ req'[r] # req[r] =>
          /\ bucket \ bucket' \subseteq {req[r].new_key}
          /\ req[r].new_key # NoKey
          /\ req[r].new_key # req[r].old_key
          /\ \E k \in CallsOf(r, "r2_put") :
                req[r].calls[k] = Call("r2_put", req[r].new_key, "ok")
          /\ req'[r].calls[Len(req'[r].calls)][1] = "r2_delete"
          /\ req'[r].calls[Len(req'[r].calls)][2] = req[r].new_key
          /\ \A row \in images :
                row.object_name = req[r].new_key =>
                    req[r].kind = "update" /\ row.id = req[r].image_id
    /\ req'[r].kind = "update" /\ req'[r].pc = "done"
          /\ req'[r].reason \in NotUpdatedExits =>
          \A k \in 1..Len(req'[r].calls) :
              req'[r].calls[k][1] = "r2_delete" => req'[r].calls[k][2] = req'[r].new_key

C15_FreshObjectKeys ==
    \A r \in Reqs :
        req[r].kind \in {"upload", "update"} /\ req[r].new_key # NoKey =>
            /\ req[r].new_key.uuid \in 1..uuidCount
            /\ req[r].new_key # req[r].old_key
            /\ \A q \in Reqs \ {r} : req[q].new_key # req[r].new_key
            /\ req[r].pc = "r2_put" =>
                 /\ req[r].new_key \notin bucket
                 /\ RowsAt(req[r].new_key) = {}
                 /\ \A q \in Reqs : req[q].old_key # req[r].new_key

\* an update about to put its new object while the object stored by the
\* create attempt before it, the record's old object, exists
C15_Witness ==
    \E r \in Reqs :
        /\ req[r].kind = "update" /\ req[r].pc = "r2_put"
        /\ req[r].old_key \in bucket
        /\ RowsAt(req[r].old_key) # {}
        /\ req[r].old_key.scope[2] = req[r].new_key.scope[2]

\* The delete of the record's old object by update r raised
OldDeleteRaised(r) ==
    \E k \in DeletesOf(r, req[r].old_key) : req[r].calls[k][3] = "raise"

\* C16: an update whose delete of the old object raised goes on to the
\* re-fetch all the same; when the re-fetch returns, the request answers 200
\* with the one record of that id, whose object name is the new one; it
\* answers an error only when the re-fetch itself raised.
C16_OldDeleteFailureNotEscalated ==
    \A r \in Reqs :
        req[r].kind = "update" /\ OldDeleteRaised(r) =>
            /\ req[r].pc \in {"refetch", "unexpected_cleanup", "done"}
            /\ req[r].pc # "refetch" =>
                 \E k \in DeletesOf(r, req[r].old_key) :
                     k < Len(req[r].calls) /\ req[r].calls[k + 1][1] = "db_get"
            /\ req[r].pc = "done" /\ req[r].calls[Len(req[r].calls)][3] = "ok"
                                  /\ req[r].calls[Len(req[r].calls)][1] = "db_get" =>
                 /\ req[r].status = 200
                 /\ Cardinality(req[r].body) = 1
                 /\ \A row \in req[r].body :
                      /\ row.id = req[r].image_id
                      /\ row.object_name = req[r].new_key
                      /\ row.r2_url = R2Url(req[r].new_key)
            /\ req[r].pc = "done" /\ req[r].status # 200 =>
                 req[r].reason = "refetch_raised"

C16_Witness ==
    \E r \in Reqs :
        /\ Done(r, "update") /\ OldDeleteRaised(r)
        /\ req[r].status = 200
        /\ req[r].old_key \in bucket /\ req[r].new_key \in bucket

\* C17: an update whose row update affected no row (the record vanished
\* after the fetch) ends with 404 and with its new object removed.
C17_VanishedIsNotFound ==
    \A r \in Reqs :
        Done(r, "update") /\ req[r].reason = "update_not_affected" =>
            /\ req[r].status = 404
            /\ req[r].new_key \notin bucket

\* The files that reach the nudity check
ReachCheck == {f \in Files : f.size_mb <= MAX_UPLOAD_SIZE_MB /\ f.image_type /\ f.decodes}

\* What the nudity check did to a request that reached it: the flow went on
\* past the check or left with a status, and the classifier was called or not
CheckOutcome(rq) ==
    <<IF rq.screen \in {"ok", "processing"} THEN "proceeds" ELSE "fails",
      IF rq.screen \in {"ok", "processing"} THEN 0 ELSE rq.status,
      {k \in 1..Len(rq.calls) : rq.calls[k][1] = "classify"} # {}>>

\* What a create does with file f when the classifier call has outcome c
CreatePolicy(f, c) ==
    LET n == NudityCheck(f, c) IN
    <<IF n[1] = "ok" THEN "proceeds" ELSE "fails",
      IF n[1] = "ok" THEN 0 ELSE UploadFinally(ReraiseHTTPException(n[2])),
      n[3] # <<>> >>

\* A step that starts request r, seen as a create or an update of file f
\* with classifier outcome c, leaves the nudity check as CreatePolicy says
UniformPolicy(r) ==
    req[r] = Idle /\ req'[r].kind \in {"upload", "update"} =>
        \A f \in ReachCheck : \A c \in ClassifierRaises(f) :
            /\ (\E u \in Users : UploadBegin(r, u, f, c))
                  => CheckOutcome(req'[r]) = CreatePolicy(f, c)
            /\ (\E u \in Users, i \in ImageIds :
                    UpdateBegin(r, u, i, f, c) /\ req'[r].old_rec # {})
                  => CheckOutcome(req'[r]) = CreatePolicy(f, c)

C19_OversizeIs413 ==
    \A r \in Reqs :
        /\ req[r].pc = "done" /\ req[r].kind \in {"upload", "update"}
        /\ req[r].screen = "oversize"
        => /\ req[r].status = 413
           /\ CallsOf(r, "classify") = {}
           /\ Writes(r) = {}

\* The token part of the conditions for a user to be resolved: a Bearer
\* header whose token decodes and carries a user_id and a token_version of
\* one of the given kinds
TokenOk(c, version_kinds) ==
    /\ c.scheme = "bearer" /\ c.decodes /\ c.user_id # 0
    /\ c.token_version[1] \in version_kinds

\* The account part: the user exists and the token's version is the user's
AccountOk(c) ==
    /\ c.user_id \in Accounts
    /\ users[c.user_id].token_version = c.token_version[2]

Verified(c) == users[c.user_id].is_verified_email

\* C20 (as stated): a request turned away by auth_middleware ends with 401
\* or 403 and without any call; a request that entered a handler runs for a
\* user whom only credentials with a Bearer token that decodes and carries
\* user_id and an integer token_version equal to the user's, of an existing
\* user with verified email, resolve to.
C20_OnlyResolvedOwners ==
    \A r \in Reqs :
        req[r] # Idle =>
            IF req[r].reason = "auth_failed"
            THEN req[r].status \in {401, 403} /\ req[r].calls = <<>>
            ELSE \A c \in Credentials :
                    req[r].user \in Yields(c) =>
                        TokenOk(c, {"int"}) /\ AccountOk(c) /\ Verified(c)

\* C20 (amended): auth_middleware returns the user exactly for a Bearer
\* token that decodes and carries user_id and a token_version that int()
\* converts to the user's current one, of an existing user with verified
\* email, when the user lookup returns; it raises 500 when the lookup raises,
\* 403 for an unverified email and 401 otherwise.  Every request that entered
\* a handler runs for such a user; a request turned away has made no call.
C20_HandlersRunForResolvedOwners ==
    /\ \A c \in Credentials : \A lookup \in LookupOutcomes(c) :
          auth_middleware(c, lookup) =
            IF ~TokenOk(c, {"int", "digits"}) THEN <<"raise", 401>>
            ELSE IF lookup = "raise" THEN <<"raise", 500>>
            ELSE IF ~AccountOk(c) THEN <<"raise", 401>>
            ELSE IF ~Verified(c) THEN <<"raise", 403>>
            ELSE <<"user", c.user_id>>
    /\ \A r \in Reqs :
          req[r] # Idle =>
            IF req[r].reason = "auth_failed"
            THEN /\ req[r].pc = "done" /\ req[r].user = 0
                 /\ req[r].status \in {401, 403, 500}
                 /\ req[r].calls = <<>>
                 /\ req[r].body = {} /\ req[r].listing = <<>>
            ELSE /\ req[r].user \in Accounts
                 /\ users[req[r].user].is_verified_email
                 /\ \E c \in Credentials :
                      /\ TokenOk(c, {"int", "digits"}) /\ AccountOk(c) /\ Verified(c)
                      /\ c.user_id = req[r].user

\* a delete turned away for an unverified email while a record and its object exist
C20_Witness ==
    \E r \in Reqs :
        /\ Done(r, "delete") /\ req[r].reason = "auth_failed"
        /\ req[r].status = 403
        /\ images # {} /\ bucket # {}

\* C21: a create whose blob put raised ends with 500; the put was its last
\* call: no insert and no blob delete was issued, and no record and no object
\* carries the attempt's object name.
C21_FailedPutEndsTheCreate ==
    \A r \in Reqs :
        /\ req[r].kind = "upload"
        /\ \E k \in CallsOf(r, "r2_put") : req[r].calls[k][3] = "raise"
        => /\ req[r].pc = "done"
           /\ req[r].reason = "put_failed"
           /\ req[r].status = 500
           /\ req[r].calls[Len(req[r].calls)] = Call("r2_put", req[r].new_key, "raise")
           /\ CallsOf(r, "db_insert") = {}
           /\ CallsOf(r, "r2_delete") = {}
           /\ RowsAt(req[r].new_key) = {}
           /\ req[r].new_key \notin bucket

C21_Witness ==
    \E r \in Reqs :
        /\ Done(r, "upload") /\ req[r].reason = "put_failed"
        /\ CallsOf(r, "classify") # {}
        /\ images # {}

\* The compensating delete of create r raised
CleanupRaised(r) ==
    \E k \in DeletesOf(r, req[r].new_key) : req[r].calls[k][3] = "raise"

\* C22: a create whose compensating delete raised has attempted that delete
\* exactly once, as its last call; the failure is logged at critical level;
\* the request ends with the status of a create whose compensation
\* succeeded (500), and the object is left in the bucket.
C22_FailedCleanupNotRetried ==
    \A r \in Reqs :
        req[r].kind = "upload" /\ CleanupRaised(r) =>
            /\ req[r].pc = "done"
            /\ req[r].reason = "insert_failed"
            /\ Cardinality(CallsOf(r, "r2_delete")) = 1
            /\ req[r].calls[Len(req[r].calls)] = Call("r2_delete", req[r].new_key, "raise")
            /\ req[r].status = UploadFinally(ReraiseHTTPException(500))
            /\ req[r].status = 500
            /\ UploadCleanupLog("raise") = <<"critical">>

C22_Witness ==
    \E r \in Reqs :
        /\ Done(r, "upload") /\ CleanupRaised(r)
        /\ req[r].new_key \in bucket
        /\ RowsAt(req[r].new_key) = {}

\* C23: a create or update that has stopped after its blob put returned
\* (cancelled or not) has either left a record that references the new
\* object or issued the compensating delete of the new object.
C23_CancelledSagaRunsOn ==
    \A r \in Reqs :
        /\ req[r].pc = "done" /\ req[r].kind \in {"upload", "update"}
        /\ \E k \in CallsOf(r, "r2_put") : req[r].calls[k][3] = "ok"
        => \/ RowsAt(req[r].new_key) # {}
           \/ DeletesOf(r, req[r].new_key) # {}

\* What a step does to the record with a given id
RecordFrame(row) ==
    \A after \in images' :
        after.id = row.id =>
            /\ after.user_id = row.user_id
            /\ after.uploaded_at = row.uploaded_at
            /\ (after.object_name = row.object_name) <=> (after.r2_url = row.r2_url)
            /\ after.r2_url = R2Url(after.object_name)
            /\ \A other \in images' : other.id = after.id => other = after

\* C24: no step changes the id, the owner or the creation time of a record
\* that exists; a step that changes a record's object name changes its URL
\* with it, and the other way round; no two records share an id.
C24_UpdateChangesKeyAndUrlOnly ==
    [][\A row \in images : RecordFrame(row)]_vars

\* a record that an update has pointed at a new object
C24_Witness ==
    \E row \in images :
        /\ row.object_name.scope[1] = "User"
        /\ row.uploaded_at = row.id
        /\ row.object_name \in bucket

\* The list call of request r has just returned its rows
ListReturned(r) ==
    /\ req[r].kind = "idle"
    /\ req'[r].kind = "list" /\ req'[r].reason = "listed"

\* The rows a sequence holds
Range(seq) == {seq[k] : k \in DOMAIN seq}

\* C25: the sequence a list call returns holds every record of the caller
\* that exists at the call, each once, and no record of another owner, and
\* is ordered by creation time, newest first.
C25_ListIsCallersNewestFirst ==
    [][\A r \in Reqs :
          ListReturned(r) =>
              LET listing == req'[r].listing
                  mine    == {row \in images : row.user_id = req'[r].user}
              IN /\ req'[r].status = 200
                 /\ Range(listing) = mine
                 /\ Len(listing) = Cardinality(mine)
                 /\ \A j, k \in DOMAIN listing :
                        j < k => listing[j].uploaded_at > listing[k].uploaded_at]_vars

\* a returned list of two records
C25_Witness ==
    \E r \in Reqs :
        /\ Done(r, "list") /\ req[r].reason = "listed"
        /\ Len(req[r].listing) = 2

\* a returned list that leaves out a record of another owner
C25_OtherOwnerWitness ==
    \E r \in Reqs :
        /\ Done(r, "list") /\ req[r].reason = "listed"
        /\ Len(req[r].listing) = 1
        /\ \E row \in images : row.user_id # req[r].user

\* C26: a create of a 2000x1000 picture that succeeded stored the centred
\* 1000x1000 part of it (left 500, top 0, right 1500, bottom 1000), the crop
\* of the configured 1:1 policy, under a key that a record of the caller
\* carries with its address; and a list of that caller that then returns
\* one record returns a record with the address of such an object.
C26_SquareCropScenario ==
    picture = <<2000, 1000>> =>
        /\ \A r \in Reqs :
              Done(r, "upload") /\ req[r].reason = "created" =>
                  /\ StoredBox(req[r].new_key) = <<500, 0, 1500, 1000>>
                  /\ StoredBox(req[r].new_key) =
                        crop_image_to_aspect_ratio(picture, CROPPED_ASPECT_RATIO,
                                                   CROPPED_ASPECT_RATIO)
                  /\ \E row \in RowsAt(req[r].new_key) :
                        /\ row.user_id = req[r].user
                        /\ row.r2_url = R2Url(req[r].new_key)
        /\ \A r \in Reqs :
              /\ Done(r, "list") /\ req[r].reason = "listed"
              /\ Len(req[r].listing) = 1
              => /\ req[r].listing[1].r2_url = R2Url(req[r].listing[1].object_name)
                 /\ StoredBox(req[r].listing[1].object_name) = <<500, 0, 1500, 1000>>

\* Every backend call of the request returned
NoFailure(rq) == \A k \in DOMAIN rq.calls : rq.calls[k][3] = "ok"

\* Requests of kinds k1 and k2 on one record of one caller have both
\* completed with no backend failure, the second just now in slot r, each
\* having fetched the record, with its object in place, as it was before the
\* other changed it; each update got past the screening of its file; and no
\* other request is in flight.
PairCompleted(r, k1, k2) ==
    /\ req[r].pc = "done"
    /\ \A q \in Reqs \ {r} : req[q] = Idle
    /\ {answered.kind, req[r].kind} = {k1, k2}
    /\ answered.image_id = req[r].image_id /\ answered.user = req[r].user
    /\ answered.old_rec # {} /\ req[r].old_rec = answered.old_rec
    /\ NoFailure(answered) /\ NoFailure(req[r])
    /\ answered.old_live /\ req[r].old_live
    /\ \A rq \in {answered, req[r]} : rq.kind = "update" => rq.screen = "ok"

\* C27: after two concurrent updates of one record have both completed with
\* no backend failure, the record references an object that exists, and every
\* object that either update stored and that still exists is referenced by
\* a record.
C27_ConcurrentUpdatesLeaveNoOrphan ==
    \A r \in Reqs :
        PairCompleted(r, "update", "update") =>
            /\ \E row \in images :
                  row.id = req[r].image_id /\ row.object_name \in bucket
            /\ \A key \in {answered.new_key, req[r].new_key} \cap bucket :
                  RowsAt(key) # {}

\* The update of the two requests of a completed pair
UpdateOf(r) == IF req[r].kind = "update" THEN req[r] ELSE answered

\* C28: after a concurrent update and delete of one record have both
\* completed with no backend failure, either the record exists and references
\* an object that exists, or the record does not exist and neither its old
\* object nor the object the update stored exists.
C28_UpdateWithDeleteIsConsistent ==
    \A r \in Reqs :
        PairCompleted(r, "update", "delete") =>
            \/ \E row \in images :
                  row.id = req[r].image_id /\ row.object_name \in bucket
            \/ /\ \A row \in images : row.id # req[r].image_id
               /\ req[r].old_key \notin bucket
               /\ UpdateOf(r).new_key \notin bucket

\* The calls of update r in which its UPDATE returned having changed a row
RowUpdates(r) ==
    {k \in CallsOf(r, "db_update") :
        req[r].calls[k][3] = "ok" /\ req[r].reason # "update_not_affected"}

\* C29: an update that has pointed the row at its new object issues no
\* delete of the new object afterwards, whatever fails later.
C29_NewBlobKeptAfterRowUpdate ==
    \A r \in Reqs :
        req[r].kind = "update" =>
            \A k \in RowUpdates(r) :
                \A j \in DeletesOf(r, req[r].new_key) : j < k

\* C30: an update issues the delete of its new object at most once.
C30_CompensatingDeleteAtMostOnce ==
    \A r \in Reqs :
        req[r].kind = "update" =>
            Cardinality(DeletesOf(r, req[r].new_key)) <= 1

\* The object names of creates and updates are scoped under str(user.id)
KeysUnderOwnerId ==
    \A r \in Reqs :
        req[r].kind \in {"upload", "update"} /\ req[r].new_key # NoKey =>
            req[r].new_key.scope = StrId(req[r].user)

\* The owner argument that a get, list, update or delete has passed to a
\* metadata query is one the query can be run with
QueriesTakeOwner ==
    \A r \in Reqs :
        req[r].kind \in {"get", "list", "update", "delete"} /\ req[r].calls # <<>> =>
            "ok" \in DbOutcomes(UserObj(req[r].user))

\* C31: list, get, update and delete scope their queries, and update builds
\* its object name, with the identifier under which create stored the record
\* and its object, the user's id as a string: the queries can be run with
\* it, and every object name carries it.
C31_OneOwnerIdentifier == KeysUnderOwnerId /\ QueriesTakeOwner

\* C32: when no database function is running, no connection is checked
\* out of the pool, and no call has been refused a connection because the
\* pool was exhausted.
C32_ConnectionsReturned ==
    dbcall.pc = "idle" => db_pool.used = 0 /\ ~dbcall.exhausted

\* What does hold: a write that committed, or rolled back on an open
\* connection, has returned its connection when it ends
C32_WritesReturnConnections ==
    [][dbcall.pc = "release" /\ dbcall.conn /\ dbcall.fn \in DbWrites /\ ~dbcall.closed
          => db_pool'.used = db_pool.used - 1]_vars

\* C33: auth_middleware raises 403 for an otherwise valid request whose JSON
\* body carries a user_id that differs from the authenticated user's id, and
\* returns no user for it: no handler runs for a user that such a request
\* resolves to.
C33_BodyMismatchIsDenied ==
    \A c \in Credentials :
        /\ TokenOk(c, {"int", "digits"}) /\ AccountOk(c) /\ Verified(c)
        /\ c.body_user = "other"
        => /\ auth_middleware(c, "ok") = <<"raise", 403>>
           /\ \A r \in Reqs :
                 req[r] # Idle /\ req[r].reason # "auth_failed" =>
                     req[r].user \notin Yields(c)

\* C34: a delete whose row delete affected no row (the record was removed
\* after the fetch) ends with 404.
C34_VanishedRowIsNotFound ==
    \A r \in Reqs :
        Done(r, "delete") /\ req[r].reason = "row_vanished" => req[r].status = 404

\* The box the claim describes for an input of the given size: height kept
\* and width cut to floor(height * 16 / 9) for width >= height, width kept
\* and height cut to floor(width * 16 / 9) otherwise, centred
ClaimedBox(size) ==
    LET width      == size[1]
        height     == size[2]
        wide       == width >= height
        new_width  == IF wide /\ (height * 16) \div 9 < width
                      THEN (height * 16) \div 9 ELSE width
        new_height == IF ~wide /\ (width * 16) \div 9 < height
                      THEN (width * 16) \div 9 ELSE height
        left       == (width - new_width) \div 2
        top        == (height - new_height) \div 2
    IN <<left, top, left + new_width, top + new_height>>

\* C35: with the default targets, the image a create or update stores is the
\* part of the input in the centred box the claim describes; the box lies
\* within the input, is not empty, and is no larger than the input in
\* either dimension.
C35_DefaultCropIsCentredWithin ==
    LET box == ProcessedBox(picture)
    IN /\ box = ClaimedBox(picture)
       /\ 0 <= box[1] /\ box[1] < box[3] /\ box[3] <= picture[1]
       /\ 0 <= box[2] /\ box[2] < box[4] /\ box[4] <= picture[2]
       /\ \A r \in Reqs :
             req[r].kind = "upload" /\ req[r].new_key \in bucket =>
                 StoredBox(req[r].new_key) = ClaimedBox(picture)

\* a create that stored a picture cut on both sides, by an odd amount
C35_Witness ==
    \E r \in Reqs :
        /\ Done(r, "upload") /\ req[r].reason = "created"
        /\ req[r].new_key \in bucket
        /\ StoredBox(req[r].new_key)[1] > 0
        /\ (picture[1] - (StoredBox(req[r].new_key)[3] - StoredBox(req[r].new_key)[1])) % 2 = 1

\* The status of the HTTPException that a create or update raises for its
\* response when it leaves before its temporary file is written: no record
\* for the caller (main.py:409), payload over the limit (main.py:211, 423),
\* content type not an image (main.py:217, 426)
IntendedStatus(reason) ==
    CASE reason = "not_found" -> 404
      [] reason = "oversize"  -> 413
      [] reason = "badtype"   -> 400

\* C36: the cleanup of the temporary file in the finally block of a create
\* or an update leaves the response of the request as it was raised: a
\* request that left before it wrote its temporary file ends with the status
\* it raised.
C36_CleanupKeepsResponse ==
    \A r \in Reqs :
        /\ req[r].pc = "done" /\ req[r].kind \in {"upload", "update"}
        /\ req[r].reason \in {"not_found", "oversize", "badtype"}
        => req[r].status = IntendedStatus(req[r].reason)

====
